---- MODULE Spec2Model ----
(***************************************************************************)
(* The medication reminder scheduler of the dialysis companion app          *)
(* (src/App.tsx, src/components/Medications.tsx) as a state machine.        *)
(*                                                                         *)
(* Time is counted in timer periods: one unit of `now` is one period of    *)
(* the reminder interval (setInterval(checkReminders, 5000)).  A wall-clock *)
(* minute is PeriodsPerMinute periods long and a day MinutesPerDay minutes; *)
(* an "HH:MM" string is modelled by the index of the minute within the     *)
(* local day and a "YYYY-MM-DD" string by the index of the UTC day.        *)
(* Strings that may be empty or undefined are modelled as sequences:       *)
(* << >> is '' / undefined, <<v>> is the string for the value v.           *)
(***************************************************************************)
EXTENDS Integers, Sequences, FiniteSets

(* ------------------------------ bounds -------------------------------- *)

\* Timer periods per wall-clock minute (the program: 60000 ms / 5000 ms).
PeriodsPerMinute == 2

\* Distinct HH:MM values of a day (a real day has 1440).
MinutesPerDay == 3

\* The clock runs over the UTC days 0 .. MaxDay.
MaxDay == 1

\* Time-zone offsets of the environment, in minutes east of UTC.
TzOffsets == {0, 1}

\* The clock stops at the end of the last day.
Horizon == (MaxDay + 1) * MinutesPerDay * PeriodsPerMinute

\* The ids of the medications the user adds: id: Date.now().toString() of
\* successive form submissions, which are distinct instants.
MedIds == {1, 2}

\* The reminder times the user enters in the add form: none, or the second
\* minute of the day.
ReminderChoices == {<< >>, <<1>>}

Permissions == {"default", "granted", "denied"}

Views == {"DASHBOARD", "MEDICATIONS"}

\* enum AppView
AppView == {"DASHBOARD", "ENTRY", "MEDICATIONS", "ANALYTICS", "PROFILE"}

\* process.env.API_KEY of the build: absent or set.
ApiKeys == {"", "key"}

VARIABLES
  now,                    \* Date.now(), in timer periods since the epoch
  tz,                     \* the environment's time-zone offset (minutes)
  permission,             \* Notification.permission
  medications,            \* App state: Medication[]
  storedMeds,             \* localStorage['dialysis_meds']
  lastCheckMinute,        \* useRef<string>(''), the last-checked-minute marker
  timers,                 \* the active intervals, each with its callback's closure
  intervalId,             \* the handle the current effect's cleanup will clear
  currentView,            \* App state: AppView
  today,                  \* Medications: `today` of its last render
  notificationPermission, \* Medications state: NotificationPermission
  nextId,                 \* the next Date.now() id handed to an added medication
  out,                    \* what the last step handed to the Notification sink
  track,                  \* which group of observations `obs` records in this run
  obs,                    \* the observations (history) the properties are stated over
  records,                \* App state: HealthRecord[]
  storedRecords,          \* localStorage['dialysis_records']
  profile,                \* App state: PatientProfile | null
  storedProfile,          \* localStorage['dialysis_profile']
  crashed,                \* an uncaught error has unmounted the React tree
  entry,                  \* DataEntry state and memos, while the view is mounted
  profileForm,            \* Profile state and memo, while the view is mounted
  analytics,              \* Analytics state, while the view is mounted
  apiKey,                 \* geminiService: process.env.API_KEY || ''
  pending,                \* the AI gateway's calls in flight
  settled,                \* the promise the gateway settled last, with its call
  mounting                \* the first commit's effects still to run, with the
                          \* state updates the load effect queued (<< >>: none)

\* The scheduler's side of the app.
reminderVars == << now, tz, permission, medications, storedMeds, lastCheckMinute, timers,
                   intervalId, currentView, today, notificationPermission, nextId, out,
                   track, obs >>

\* Records, profile and their storage keys.
dataVars == << records, storedRecords, profile, storedProfile, crashed >>

\* The state of the views other than Medications.
viewVars == << entry, profileForm, analytics >>

\* The AI gateway.
gatewayVars == << apiKey, pending, settled >>

vars == << reminderVars, dataVars, viewVars, gatewayVars, mounting >>

(* ------------------------------ the clock ----------------------------- *)

\* The UTC minute count of instant t.
UtcMinutes(t) == t \div PeriodsPerMinute

\* now.getHours().padStart(2,'0') + ':' + now.getMinutes().padStart(2,'0'):
\* the minute of the day in LOCAL time.
HHMM(t, z) == << (UtcMinutes(t) + z) % MinutesPerDay >>

\* now.toISOString().split('T')[0]: the calendar date in UTC.
ISODate(t) == << UtcMinutes(t) \div MinutesPerDay >>

\* The calendar day of the local clock, the one HH:MM is measured in.
LocalDay(t, z) == (UtcMinutes(t) + z) \div MinutesPerDay

NoString == << >>

ReminderTimes == {NoString} \cup { <<m>> : m \in 0 .. MinutesPerDay - 1 }

(* ------------------------- the Number type ---------------------------- *)

\* A JavaScript Number is an IEEE 754 binary64: a sign, a significand of
\* MantissaBits bits and a binary exponent.  parseFloat and `/` round to the
\* nearest such value, ties to even.  A significand is held as three limbs
\* << high, middle, low >> in base Limb.
MantissaBits == 53

Limb == 2 ^ 20

BigZero == << 0, 0, 0 >>

BigOf(n) == << 0, n \div Limb, n % Limb >>

BigGeq(a, b) ==
  \/ a[1] > b[1]
  \/ a[1] = b[1] /\ a[2] > b[2]
  \/ a[1] = b[1] /\ a[2] = b[2] /\ a[3] >= b[3]

\* a - b, for a >= b
BigSub(a, b) ==
  LET lo == a[3] - b[3]
      b1 == IF lo < 0 THEN 1 ELSE 0
      mid == a[2] - b[2] - b1
      b2 == IF mid < 0 THEN 1 ELSE 0
  IN  << a[1] - b[1] - b2, mid + b2 * Limb, lo + b1 * Limb >>

\* a + n, for a small n
BigAdd(a, n) ==
  LET lo == a[3] + n
      mid == a[2] + lo \div Limb
  IN  << a[1] + mid \div Limb, mid % Limb, lo % Limb >>

BigDbl(a) ==
  LET lo == 2 * a[3]
      mid == 2 * a[2] + lo \div Limb
  IN  << 2 * a[1] + mid \div Limb, mid % Limb, lo % Limb >>

\* 2^k as a significand, for 40 <= k < 60
BigPow2(k) == << 2 ^ (k - 40), 0, 0 >>

\* One step of binary long division by d: the next bit of s.r / d is appended
\* to s.q (s.r < 2d).
DivideStep(s, d) ==
  LET bit == BigGeq(s.r, d)
  IN  [q |-> BigAdd(BigDbl(s.q), IF bit THEN 1 ELSE 0),
       r |-> BigDbl(IF bit THEN BigSub(s.r, d) ELSE s.r)]

\* k >= 1 steps of it: the first half of the steps, then the rest from the
\* state h they end in.
RECURSIVE LongDivide(_, _, _)
LongDivide(s, d, k) ==
  IF k = 1 THEN DivideStep(s, d)
  ELSE CHOOSE t \in { LongDivide(h, d, k - k \div 2) :
                        h \in { LongDivide(s, d, k \div 2) } } : TRUE

\* n / d for d <= n < 2d, times 2^e, rounded to nearest, ties to even.
RoundedQuotient(n, d, e) ==
  LET x == LongDivide([q |-> BigZero, r |-> n], d, MantissaBits)
      half == BigGeq(x.r, d)
      rest == IF half THEN BigSub(x.r, d) ELSE x.r
      up == half /\ (rest # BigZero \/ x.q[3] % 2 = 1)
      q == IF up THEN BigAdd(x.q, 1) ELSE x.q
  IN  IF q = BigPow2(MantissaBits)
        THEN [m |-> BigPow2(MantissaBits - 1), e |-> e + 1]
        ELSE [m |-> q, e |-> e]

\* The ratio n / d of two positive integers scaled into [1, 2).
RECURSIVE Normalize(_, _, _)
Normalize(n, d, e) ==
  IF n < d THEN Normalize(2 * n, d, e - 1)
  ELSE IF n >= 2 * d THEN Normalize(n, 2 * d, e + 1)
  ELSE [n |-> n, d |-> d, e |-> e]

NaN == [cls |-> "nan", neg |-> FALSE, m |-> BigZero, e |-> 0]

Undefined == [cls |-> "undefined", neg |-> FALSE, m |-> BigZero, e |-> 0]

SignedZero(neg) == [cls |-> "zero", neg |-> neg, m |-> BigZero, e |-> 0]

\* The Number nearest to n / d (n, d positive integers).
NumberOfRatio(neg, n, d) ==
  LET s == Normalize(n, d, 0)
      x == RoundedQuotient(BigOf(s.n), BigOf(s.d), s.e)
  IN  [cls |-> "num", neg |-> neg, m |-> x.m, e |-> x.e]

RECURSIVE Pow10(_)
Pow10(k) == IF k = 0 THEN 1 ELSE 10 * Pow10(k - 1)

\* The text of a number input: '' is << >>, and a decimal numeral with n its
\* digits read as an integer and k the number of digits after the point is
\* << [neg, n, k] >> ("-2.24" has neg = TRUE, n = 224, k = 2).
Decimal(n, k) == << [neg |-> FALSE, n |-> n, k |-> k] >>

Negative(n, k) == << [neg |-> TRUE, n |-> n, k |-> k] >>

\* parseFloat(text)
parseFloat(text) ==
  IF text = << >> THEN NaN
  ELSE IF text[1].n = 0 THEN SignedZero(text[1].neg)
  ELSE NumberOfRatio(text[1].neg, text[1].n, Pow10(text[1].k))

isNaN(x) == x.cls = "nan"

\* |x| > |y| for two Numbers other than zero and NaN
MagnitudeGt(x, y) ==
  \/ x.e > y.e
  \/ x.e = y.e /\ BigGeq(x.m, y.m) /\ x.m # y.m

\* x > y
NumberGt(x, y) ==
  /\ x.cls # "nan" /\ y.cls # "nan"
  /\ CASE x.cls = "num" /\ ~x.neg -> (y.cls = "num" /\ ~y.neg) => MagnitudeGt(x, y)
       [] x.cls = "num" /\ x.neg -> y.cls = "num" /\ y.neg /\ MagnitudeGt(y, x)
       [] OTHER -> y.cls = "num" /\ y.neg

\* x / y for a Number x and a Number y other than zero and NaN
NumberDiv(x, y) ==
  IF x.cls = "nan" THEN NaN
  ELSE IF x.cls = "zero" THEN SignedZero(x.neg # y.neg)
  ELSE LET q == IF BigGeq(x.m, y.m)
                  THEN RoundedQuotient(x.m, y.m, x.e - y.e)
                  ELSE RoundedQuotient(BigDbl(x.m), y.m, x.e - y.e - 1)
       IN  [cls |-> "num", neg |-> (x.neg # y.neg), m |-> q.m, e |-> q.e]

\* parseInt(text): the digits before the point.
parseInt(text) ==
  IF text = << >> THEN << >>
  ELSE << (IF text[1].neg THEN -1 ELSE 1) * (text[1].n \div Pow10(text[1].k)) >>

(* ------------------- the clinical threshold evaluator ----------------- *)

\* The literal 0.05
FluidLimit == parseFloat(Decimal(5, 2))

\* DataEntry: showFluidWarning
showFluidWarning(dryWeight, fluidRemoval) ==
  LET dw == parseFloat(dryWeight)
      fr == parseFloat(fluidRemoval)
  IN  IF ~isNaN(dw) /\ ~isNaN(fr) /\ NumberGt(dw, SignedZero(FALSE))
        THEN NumberGt(NumberDiv(fr, dw), FluidLimit)
        ELSE FALSE

\* bpStatus with the two branches in the other order.
bpStatusHighFirst(systolic, diastolic, patientAge) ==
  LET sys == parseInt(systolic)
      dia == parseInt(diastolic)
      elderly == patientAge # << >> /\ patientAge[1] # 0 /\ patientAge[1] >= 65
      sysLimit == IF elderly THEN 150 ELSE 140
  IN  IF sys = << >> \/ dia = << >> THEN "null"
      ELSE IF sys[1] > sysLimit \/ dia[1] > 90 THEN "warning"
      ELSE IF sys[1] < 90 \/ dia[1] < 60 THEN "danger"
      ELSE "null"

\* bpStatus with the elderly thresholds from the age of 66 on.
bpStatusOver65(systolic, diastolic, patientAge) ==
  LET sys == parseInt(systolic)
      dia == parseInt(diastolic)
      elderly == patientAge # << >> /\ patientAge[1] # 0 /\ patientAge[1] > 65
      sysLimit == IF elderly THEN 150 ELSE 140
  IN  IF sys = << >> \/ dia = << >> THEN "null"
      ELSE IF sys[1] < 90 \/ dia[1] < 60 THEN "danger"
      ELSE IF sys[1] > sysLimit \/ dia[1] > 90 THEN "warning"
      ELSE "null"

\* bpStatus with the limits themselves counted as out of range.
bpStatusInclusive(systolic, diastolic, patientAge) ==
  LET sys == parseInt(systolic)
      dia == parseInt(diastolic)
      elderly == patientAge # << >> /\ patientAge[1] # 0 /\ patientAge[1] >= 65
      sysLimit == IF elderly THEN 150 ELSE 140
  IN  IF sys = << >> \/ dia = << >> THEN "null"
      ELSE IF sys[1] <= 90 \/ dia[1] <= 60 THEN "danger"
      ELSE IF sys[1] >= sysLimit \/ dia[1] >= 90 THEN "warning"
      ELSE "null"

\* DataEntry: bpStatus, the `type` of the status or "null".  patientAge is
\* << >> when undefined (no profile) or NaN, and <<age>> otherwise.
bpStatus(systolic, diastolic, patientAge) ==
  LET sys == parseInt(systolic)
      dia == parseInt(diastolic)
  IN  IF sys = << >> \/ dia = << >> THEN "null"
      ELSE IF sys[1] < 90 \/ dia[1] < 60 THEN "danger"
      ELSE LET elderly == patientAge # << >> /\ patientAge[1] # 0 /\ patientAge[1] >= 65
               sysLimit == IF elderly THEN 150 ELSE 140
               diaLimit == 90
           IN  IF sys[1] > sysLimit \/ dia[1] > diaLimit THEN "warning" ELSE "null"

(* --------------------------- medications ------------------------------ *)

\* handleAdd: a new Medication (name, dosage and frequency are free text that
\* no decision reads; they are left out).
NewMed(id, rt) ==
  [id |-> id, reminderTime |-> rt, takenToday |-> FALSE, lastTakenDate |-> NoString]

\* isTakenToday / isTaken: lastTakenDate === date && takenToday.
isTakenToday(med, date) == med.lastTakenDate = date /\ med.takenToday

\* A toggle that trusts the boolean alone, whatever the date.
ToggleOneBoolean(m, date) ==
  [m EXCEPT !.takenToday = ~m.takenToday,
            !.lastTakenDate = IF ~m.takenToday THEN date ELSE m.lastTakenDate]

\* toggleMedTaken's map callback for the medication with the id.
ToggleOne(m, date) ==
  LET taken == m.lastTakenDate = date /\ m.takenToday
  IN  [m EXCEPT !.takenToday = ~taken,
                !.lastTakenDate = IF ~taken THEN date ELSE m.lastTakenDate]

\* toggleMedTaken(id, date): prev.map(...)
toggleMedTaken(meds, id, date) ==
  [i \in 1 .. Len(meds) |-> IF meds[i].id = id THEN ToggleOne(meds[i], date) ELSE meds[i]]

\* deleteMedication after confirm: prev.filter(m => m.id !== id)
FilterOut(meds, id) == SelectSeq(meds, LAMBDA m : m.id # id)

MedById(meds, id) == meds[CHOOSE i \in 1 .. Len(meds) : meds[i].id = id]

IdsOf(meds) == { meds[i].id : i \in 1 .. Len(meds) }

(* ----------------------- records and the profile ---------------------- *)

\* The integer n as a Number
NumberOfInt(n) ==
  IF n = 0 THEN SignedZero(FALSE)
  ELSE IF n < 0 THEN NumberOfRatio(TRUE, -n, 1)
  ELSE NumberOfRatio(FALSE, n, 1)

\* DataEntry.handleSubmit's argument to onAddRecord (notes, free text that no
\* decision reads, is left out).
RecordData(date, weight, dryWeight, fluidRemoval, systolic, diastolic) ==
  [date |-> date,
   weight |-> parseFloat(weight),
   dryWeight |-> parseFloat(dryWeight),
   fluidRemoval |-> IF fluidRemoval # << >> THEN parseFloat(fluidRemoval) ELSE Undefined,
   systolic |-> IF parseInt(systolic) = << >> THEN NaN
                ELSE NumberOfInt(parseInt(systolic)[1]),
   diastolic |-> IF parseInt(diastolic) = << >> THEN NaN
                 ELSE NumberOfInt(parseInt(diastolic)[1])]

\* addRecord's newRecord: { ...recordData, id: Date.now().toString() }
NewRecord(id, recordData) ==
  [id |-> id, date |-> recordData.date, weight |-> recordData.weight,
   dryWeight |-> recordData.dryWeight, fluidRemoval |-> recordData.fluidRemoval,
   systolic |-> recordData.systolic, diastolic |-> recordData.diastolic]

\* addRecord that keeps one record per date.
addRecordPerDate(recs, newRecord) ==
  Append(SelectSeq(recs, LAMBDA r : r.date # newRecord.date), newRecord)

\* addRecord's update of the list: prev => [...prev, newRecord]
addRecord(recs, newRecord) == Append(recs, newRecord)

\* records.sort((a, b) => new Date(b.date).getTime() - new Date(a.date).getTime()):
\* latest date first, records of one date in their previous order.
SortLatestFirst(recs) ==
  LET rank(i) == Cardinality({ j \in 1 .. Len(recs) :
                                 \/ recs[j].date[1] > recs[i].date[1]
                                 \/ recs[j].date = recs[i].date /\ j < i }) + 1
  IN  [k \in 1 .. Len(recs) |-> recs[CHOOSE i \in 1 .. Len(recs) : rank(i) = k]]

\* getLastDryWeight
getLastDryWeight(recs) ==
  IF Len(recs) = 0 THEN Undefined ELSE SortLatestFirst(recs)[1].dryWeight

NoProfile == << >>

\* PatientProfile | null as the value of `profile?.age`
PatientAge(p) == IF p = NoProfile THEN << >> ELSE p[1].age

(* ------------------------------ storage ------------------------------- *)

\* A localStorage item: absent (getItem gives null), a JSON text, held as the
\* value it denotes, or a text that is not JSON.
NoItem == [kind |-> "absent", value |-> << >>]

Json(v) == [kind |-> "json", value |-> v]

Corrupt == [kind |-> "corrupt", value |-> << >>]

\* JSON has no NaN and no undefined: NaN is written as null, and a property whose
\* value is undefined is not written.
Null == [cls |-> "null", neg |-> FALSE, m |-> BigZero, e |-> 0]

JsonNumber(x) == IF x.cls = "nan" THEN Null ELSE x

StringifyMed(m) ==
  IF m.reminderTime = << >>
    THEN [id |-> m.id, takenToday |-> m.takenToday, lastTakenDate |-> m.lastTakenDate]
    ELSE [id |-> m.id, reminderTime |-> m.reminderTime, takenToday |-> m.takenToday,
          lastTakenDate |-> m.lastTakenDate]

ParseMed(o) ==
  [id |-> o.id,
   reminderTime |-> IF "reminderTime" \in DOMAIN o THEN o.reminderTime ELSE << >>,
   takenToday |-> o.takenToday,
   lastTakenDate |-> o.lastTakenDate]

StringifyRecord(r) ==
  IF r.fluidRemoval.cls = "undefined"
    THEN [id |-> r.id, date |-> r.date, weight |-> JsonNumber(r.weight),
          dryWeight |-> JsonNumber(r.dryWeight), systolic |-> JsonNumber(r.systolic),
          diastolic |-> JsonNumber(r.diastolic)]
    ELSE [id |-> r.id, date |-> r.date, weight |-> JsonNumber(r.weight),
          dryWeight |-> JsonNumber(r.dryWeight),
          fluidRemoval |-> JsonNumber(r.fluidRemoval),
          systolic |-> JsonNumber(r.systolic), diastolic |-> JsonNumber(r.diastolic)]

ParseRecord(o) ==
  [id |-> o.id, date |-> o.date, weight |-> o.weight, dryWeight |-> o.dryWeight,
   fluidRemoval |-> IF "fluidRemoval" \in DOMAIN o THEN o.fluidRemoval ELSE Undefined,
   systolic |-> o.systolic, diastolic |-> o.diastolic]

\* JSON.stringify(medications) / JSON.parse(savedMeds)
StringifyMeds(meds) == Json([i \in 1 .. Len(meds) |-> StringifyMed(meds[i])])

ParseMeds(item) == [i \in 1 .. Len(item.value) |-> ParseMed(item.value[i])]

\* JSON.stringify(records) / JSON.parse(savedRecords)
StringifyRecords(recs) == Json([i \in 1 .. Len(recs) |-> StringifyRecord(recs[i])])

ParseRecords(item) == [i \in 1 .. Len(item.value) |-> ParseRecord(item.value[i])]

\* JSON.stringify(profile) / JSON.parse(savedProfile): every property of a
\* profile the form saves has a value JSON can hold.
StringifyProfile(p) == Json(p)

ParseProfile(item) == item.value

\* The load effect: if (saved) setX(JSON.parse(saved)), over the initial state.
LoadRecords(item) == IF item = NoItem THEN << >> ELSE ParseRecords(item)

LoadMeds(item) == IF item = NoItem THEN << >> ELSE ParseMeds(item)

LoadProfile(item) == IF item = NoItem THEN NoProfile ELSE ParseProfile(item)

\* The save effect of `profile`: if (profile) setItem(...)
SaveProfile(p, item) == IF p # NoProfile THEN StringifyProfile(p) ELSE item

(* ------------------------------ DataEntry ----------------------------- *)

\* The values of the dry-weight input (type="number": a numeral, or '' for
\* anything else), which are also what lastDryWeight.toString() can yield.
DryWeightTexts ==
  {<< >>, Decimal(0, 0), Negative(600, 1), Decimal(14, 1), Decimal(56, 1),
   Decimal(112, 1), Decimal(224, 1), Decimal(448, 1), Decimal(60, 0), Decimal(702, 1)}

\* The values of the fluid-removal input.
FluidTexts ==
  {<< >>, Decimal(0, 0), Negative(35, 1), Decimal(7, 2), Decimal(28, 2), Decimal(56, 2),
   Decimal(112, 2), Decimal(224, 2), Decimal(3, 0), Decimal(301, 2), Decimal(351, 2),
   Decimal(36, 1)}

\* The values of the systolic and of the diastolic input.
SystolicTexts ==
  {<< >>, Negative(5, 0), Decimal(85, 0), Decimal(899, 1), Decimal(90, 0), Decimal(140, 0),
   Decimal(145, 0), Decimal(148, 0), Decimal(150, 0), Decimal(151, 0)}

DiastolicTexts ==
  {<< >>, Decimal(59, 0), Decimal(60, 0), Decimal(85, 0), Decimal(88, 0),
   Decimal(90, 0), Decimal(95, 0)}

\* x.toString() for a Number x: the shortest numeral that reads back as x.
NumberToString(x) ==
  IF x.cls = "undefined" \/ \A t \in DryWeightTexts : parseFloat(t) # x THEN << >>
  ELSE CHOOSE t \in DryWeightTexts : parseFloat(t) = x

\* No DataEntry is mounted.  Mounted, these are its state (the fields the two
\* checks read, the notes as the transcripts appended to them) and its two memos.
NoEntry ==
  [dryWeight |-> << >>, fluidRemoval |-> << >>, systolic |-> << >>, diastolic |-> << >>,
   notes |-> << >>, isTranscribing |-> FALSE, showFluidWarning |-> FALSE,
   bpStatus |-> "null"]

\* DataEntry mounts: useState(lastDryWeight?.toString() || ''), the rest ''.
MountEntry(recs, p) ==
  LET dryWeight == NumberToString(getLastDryWeight(recs))
  IN  [NoEntry EXCEPT !.dryWeight = dryWeight,
                      !.showFluidWarning = showFluidWarning(dryWeight, << >>),
                      !.bpStatus = bpStatus(<< >>, << >>, PatientAge(p))]

(* ------------------------------- Profile ------------------------------ *)

\* Days per calendar month (a real month has 28 to 31).
DaysPerMonth == 2

MonthsPerYear == 12

\* new Date('YYYY-MM-DD').getTime(): midnight UTC of the date.
DateInstant(date) == date[1] * MinutesPerDay * PeriodsPerMinute

\* d.getFullYear() and d.getMonth(): the local calendar's.
getFullYear(t, z) == LocalDay(t, z) \div (DaysPerMonth * MonthsPerYear)

getMonth(t, z) == (LocalDay(t, z) \div DaysPerMonth) % MonthsPerYear

\* dialysisStats without the test of start > now.
dialysisStatsUnchecked(startDate, t, z) ==
  IF startDate = << >> THEN << >>
  ELSE LET start == DateInstant(startDate)
           months == (getFullYear(t, z) - getFullYear(start, z)) * 12
                       + (getMonth(t, z) - getMonth(start, z))
           totalMonths == IF months < 0 THEN 0 ELSE months
       IN  << [totalMonths |-> totalMonths, error |-> FALSE, months |-> totalMonths,
               breakdown |-> IF totalMonths \div 12 > 0
                               THEN << totalMonths \div 12, totalMonths % 12 >>
                               ELSE << >>] >>

\* Profile: dialysisStats, << >> for null.  The text is "N months", with the
\* breakdown << years, months >> appended when it has a year, or the error
\* message.
dialysisStats(startDate, t, z) ==
  IF startDate = << >> THEN << >>
  ELSE LET start == DateInstant(startDate)
           yearsDiff == getFullYear(t, z) - getFullYear(start, z)
           monthsDiff == getMonth(t, z) - getMonth(start, z)
           months == yearsDiff * 12 + monthsDiff
           totalMonths == IF months < 0 THEN 0 ELSE months
           displayYears == totalMonths \div 12
           displayMonths == totalMonths % 12
       IN  IF start > t
             THEN << [totalMonths |-> 0, error |-> TRUE, months |-> 0, breakdown |-> << >>] >>
             ELSE << [totalMonths |-> totalMonths, error |-> FALSE, months |-> totalMonths,
                      breakdown |-> IF displayYears > 0
                                      THEN << displayYears, displayMonths >>
                                      ELSE << >>] >>

\* No Profile view is mounted.
NoProfileForm == [age |-> << >>, startDate |-> << >>, dialysisStats |-> << >>]

\* Profile mounts, and its effect on [profile] copies the profile into the form:
\* setAge(profile.age.toString()), setStartDate(profile.dialysisStartDate || '').
MountProfileForm(p, t, z) ==
  IF p = NoProfile THEN NoProfileForm
  ELSE [age |-> IF p[1].age = << >> THEN << >> ELSE Decimal(p[1].age[1], 0),
        startDate |-> p[1].dialysisStartDate,
        dialysisStats |-> dialysisStats(p[1].dialysisStartDate, t, z)]

\* The values of the age input.
AgeTexts == {<< >>, Decimal(0, 0), Decimal(40, 0), Decimal(64, 0), Decimal(65, 0),
             Decimal(70, 0), Decimal(121, 0)}

\* The form's constraint validation, without which the browser does not submit:
\* the age is required, a whole number from 1 to 120; the start date, if any, is
\* at most max = new Date().toISOString().split('T')[0].
ProfileFormValid(form, t) ==
  /\ form.age # << >>
  /\ ~form.age[1].neg /\ form.age[1].k = 0
  /\ form.age[1].n \in 1 .. 120
  /\ form.startDate # << >> => form.startDate[1] <= ISODate(t)[1]

\* handleSubmit's argument to onSaveProfile (name, free text, is left out).
ProfileData(form) ==
  << [age |-> parseInt(form.age),
      dialysisStartDate |-> form.startDate,
      dialysisAge |-> IF form.dialysisStats # << >>
                        THEN form.dialysisStats[1].totalMonths ELSE 0] >>

(* ---------------------------- the AI gateway -------------------------- *)

\* No Analytics is mounted.  Mounted: analysis (<< >> for null), loading and
\* selectedMonth, the month of new Date().toISOString().slice(0, 7); analysisOf
\* is the record list the analysis shown was requested for.
NoAnalytics ==
  [analysis |-> << >>, analysisOf |-> << >>, loading |-> FALSE, selectedMonth |-> << >>]

MonthOf(date) == << date[1] \div DaysPerMonth >>

MountAnalytics(t) == [NoAnalytics EXCEPT !.selectedMonth = MonthOf(ISODate(t))]

\* Analytics: filteredRecords, the records of the selected month, oldest first
\* (records of one date in their order in the list).
filteredRecords(recs, month) ==
  LET inMonth == SelectSeq(recs, LAMBDA r : MonthOf(r.date) = month)
      rank(i) == Cardinality({ j \in 1 .. Len(inMonth) :
                                 \/ inMonth[j].date[1] < inMonth[i].date[1]
                                 \/ inMonth[j].date = inMonth[i].date /\ j < i }) + 1
  IN  [k \in 1 .. Len(inMonth) |->
         inMonth[CHOOSE i \in 1 .. Len(inMonth) : rank(i) = k]]

\* A call in flight: the function, its argument, and whether the component that
\* awaits it is still mounted.
Call(fn, recs) == [fn |-> fn, recs |-> recs, live |-> TRUE]

Orphaned(calls) == { [c EXCEPT !.live = FALSE] : c \in calls }

\* What the transport (ai.models.generateContent) does with a request: it
\* resolves with a text, resolves without one, or throws.
Outcomes == {"text", "empty", "throw"}

Fulfilled(v) == [state |-> "fulfilled", value |-> v]

Rejected == [state |-> "rejected", value |-> "error"]

\* generateHealthAnalysis without its try/catch.
generateHealthAnalysisUncaught(key, recs, outcome) ==
  IF key = "" THEN Fulfilled("no API key")
  ELSE IF Len(recs) = 0 THEN Fulfilled("no records")
  ELSE IF outcome = "throw" THEN Rejected
  ELSE IF outcome = "empty" THEN Fulfilled("no analysis")
  ELSE Fulfilled("response text")

\* generateHealthAnalysis(records): the promise it returns, once settled.  The
\* four fallback strings are named by their meaning.
generateHealthAnalysis(key, recs, outcome) ==
  IF key = "" THEN Fulfilled("no API key")
  ELSE IF Len(recs) = 0 THEN Fulfilled("no records")
  ELSE IF outcome = "throw" THEN Fulfilled("analysis error")
  ELSE IF outcome = "empty" THEN Fulfilled("no analysis")
  ELSE Fulfilled("response text")

\* transcribeAudio(base64Audio, mimeType): the promise it returns, once settled.
transcribeAudio(key, outcome) ==
  IF key = "" THEN Fulfilled("")
  ELSE IF outcome = "throw" THEN Fulfilled("")
  ELSE IF outcome = "empty" THEN Fulfilled("")
  ELSE Fulfilled("response text")

(* ---------------------------- the scheduler --------------------------- *)

\* A scheduler that catches up: a reminder whose minute has passed is still due.
IsDueCatchUp(med, currentMinute, todayDate) ==
  /\ med.reminderTime # << >>
  /\ med.reminderTime[1] <= currentMinute[1]
  /\ ~(med.lastTakenDate = todayDate /\ med.takenToday)

\* The medications a tick notifies, in list order:
\* med.reminderTime === currentMinute && !(med.lastTakenDate === todayDate && med.takenToday)
IsDue(med, currentMinute, todayDate) ==
  med.reminderTime = currentMinute /\ ~(med.lastTakenDate = todayDate /\ med.takenToday)

DueIds(meds, currentMinute, todayDate) ==
  LET due == SelectSeq(meds, LAMBDA m : IsDue(m, currentMinute, todayDate))
  IN  [i \in 1 .. Len(due) |-> due[i].id]

\* checkReminders without the once-per-minute marker test.
checkRemindersEveryTick(meds, marker, perm, t, z) ==
  IF perm # "granted"
    THEN [marker |-> marker, evaluated |-> FALSE, due |-> << >>]
    ELSE [marker |-> HHMM(t, z), evaluated |-> TRUE,
          due |-> DueIds(meds, HHMM(t, z), ISODate(t))]

\* checkReminders without the permission test.
checkRemindersAnyPermission(meds, marker, perm, t, z) ==
  IF HHMM(t, z) = marker
    THEN [marker |-> marker, evaluated |-> FALSE, due |-> << >>]
    ELSE [marker |-> HHMM(t, z), evaluated |-> TRUE,
          due |-> DueIds(meds, HHMM(t, z), ISODate(t))]

\* checkReminders, up to the forEach: the new marker, whether the comparison was
\* performed, and the medications to notify.
checkReminders(meds, marker, perm, t, z) ==
  IF perm # "granted"
    THEN [marker |-> marker, evaluated |-> FALSE, due |-> << >>]
    ELSE LET currentMinute == HHMM(t, z)
             todayDate == ISODate(t)
         IN  IF currentMinute = marker
               THEN [marker |-> marker, evaluated |-> FALSE, due |-> << >>]
               ELSE [marker |-> currentMinute, evaluated |-> TRUE,
                     due |-> DueIds(meds, currentMinute, todayDate)]

\* The forEach without the try/catch: the first throw ends the loop.
EmitUncaught(due, throwing) ==
  LET stop == { i \in 1 .. Len(due) : due[i] \in throwing }
      last == IF stop = {} THEN Len(due)
              ELSE CHOOSE i \in stop : \A j \in stop : i <= j
      ids == { due[i] : i \in 1 .. last }
  IN  [attempted |-> ids, failed |-> ids \cap throwing]

\* The forEach body's try { new Notification(...) } catch: every due medication is
\* attempted, whichever constructor calls throw.
Emit(due, throwing) ==
  LET ids == { due[i] : i \in 1 .. Len(due) }
  IN  [attempted |-> ids, failed |-> ids \cap throwing]

\* setInterval: a fresh handle, the callback's closure over `medications`.
FreshHandle(ts) ==
  CHOOSE n \in 1 .. Cardinality(ts) + 1 :
    /\ \A t \in ts : t.h # n
    /\ \A k \in 1 .. n - 1 : \E t \in ts : t.h = k

SetInterval(ts, meds) ==
  ts \cup { [h |-> FreshHandle(ts), due |-> FALSE, meds |-> meds] }

ClearInterval(ts, h) == { t \in ts : t.h # h }

\* The effect without its cleanup: the previous interval is never cleared.
SchedulerEffectNoCleanup(ts, h, meds) == SetInterval(ts, meds)

\* The effect with an empty dependency list: it runs at mount only, and the
\* interval keeps the closure over the medications of that render.
SchedulerEffectMountOnly(ts, h, meds) == ts

\* useEffect(..., [medications]): the previous run's cleanup, then this run.
SchedulerEffect(ts, h, meds) == SetInterval(ClearInterval(ts, h), meds)

EffectHandle(ts, h) == FreshHandle(ClearInterval(ts, h))

(* ---------------------------- observations --------------------------- *)

\* What a step hands to the Notification sink: who constructed notifications
\* ("tick", "request" or "none"), whether the tick performed the reminder
\* comparison, and the medications it constructed a notification for.
NoOut == [by |-> "none", evaluated |-> FALSE, attempted |-> {}]

Zero == [id \in MedIds |-> 0]

Bump(n) == IF n < 2 THEN n + 1 ELSE n

Count(f, ids) == [id \in MedIds |-> IF id \in ids THEN Bump(f[id]) ELSE f[id]]

\* The medications due and not taken at instant t, as the scheduler judges them.
DueNow(meds, t, z) ==
  { meds[i].id : i \in { j \in 1 .. Len(meds) : IsDue(meds[j], HHMM(t, z), ISODate(t)) } }

\* The observations, one group per value of `track`:
\*  "sent"   sentMin, sentDay: per medication, the notifications attempted in the
\*           current minute / on the current local day by the running process;
\*           sentDayAll: on the current local day by all processes
\*  "fail"   failed: the medications whose constructor threw in the last tick;
\*           failedMin: those whose constructor threw in this minute, this
\*           process; sentMin as above
\*  "first"  ticked: a tick has run with permission granted in this calendar
\*           minute; first: the last step was the first such tick
\*  "taken"  takenLocal: the medications the user marked taken (and did not
\*           unmark) on the current day of the local clock
\*  "start"  owed: the medications due and not taken in the minute the process
\*           started in, not yet notified; missed: those the minute ended without
\*  "minute" minuteEvals: reminder comparisons performed in this minute;
\*           minuteFull: the process ran unstalled with permission granted since
\*           the minute began; skipped: the minute that just ended was run in
\*           full and never compared
NoObs ==
  [sentMin |-> Zero, sentDay |-> Zero, sentDayAll |-> Zero,
   failed |-> {}, failedMin |-> {},
   ticked |-> FALSE, first |-> FALSE,
   takenLocal |-> {},
   owed |-> {}, missed |-> {},
   minuteEvals |-> 0, minuteFull |-> FALSE, skipped |-> FALSE]

Tracks == {"none", "sent", "fail", "first", "taken", "start", "minute"}

ObsClock(stalled) ==
  LET newMinute == UtcMinutes(now + 1) # UtcMinutes(now)
      newDay == LocalDay(now + 1, tz) # LocalDay(now, tz)
  IN  CASE track = "sent" ->
             [obs EXCEPT !.sentMin = IF newMinute THEN Zero ELSE @,
                         !.sentDay = IF newDay THEN Zero ELSE @,
                         !.sentDayAll = IF newDay THEN Zero ELSE @]
        [] track = "fail" ->
             [obs EXCEPT !.failed = {}, !.failedMin = IF newMinute THEN {} ELSE @,
                         !.sentMin = IF newMinute THEN Zero ELSE @]
        [] track = "first" ->
             [obs EXCEPT !.first = FALSE, !.ticked = IF newMinute THEN FALSE ELSE @]
        [] track = "taken" ->
             [obs EXCEPT !.takenLocal = IF newDay THEN {} ELSE @]
        [] track = "start" ->
             [obs EXCEPT !.missed = IF newMinute /\ ~stalled /\ obs.owed # {}
                                       THEN obs.owed ELSE @,
                         !.owed = IF newMinute \/ stalled THEN {} ELSE @]
        [] track = "minute" ->
             [obs EXCEPT !.skipped = IF newMinute
                                        THEN obs.minuteFull /\ ~stalled /\ obs.minuteEvals = 0
                                        ELSE @,
                         !.minuteFull = IF newMinute THEN permission = "granted" /\ ~stalled
                                                     ELSE @ /\ ~stalled,
                         !.minuteEvals = IF newMinute THEN 0 ELSE @]
        [] OTHER -> obs

ObsTick(r, e, throwing) ==
  CASE track = "sent" ->
         [obs EXCEPT !.sentMin = Count(@, e.attempted),
                     !.sentDay = Count(@, e.attempted),
                     !.sentDayAll = Count(@, e.attempted)]
    [] track = "fail" ->
         [obs EXCEPT !.failed = e.attempted \cap throwing,
                     !.failedMin = @ \cup (e.attempted \cap throwing),
                     !.sentMin = Count(@, e.attempted)]
    [] track = "first" ->
         [obs EXCEPT !.first = (permission = "granted" /\ ~obs.ticked),
                     !.ticked = @ \/ permission = "granted"]
    [] track = "start" ->
         [obs EXCEPT !.owed = @ \ e.attempted]
    [] track = "minute" ->
         [obs EXCEPT !.minuteEvals = IF r.evaluated THEN Bump(@) ELSE @]
    [] OTHER -> obs

\* A step of the user on the medication list (add, toggle, delete, or none).
ObsMeds(id, marked, unmarked) ==
  CASE track = "fail" -> [obs EXCEPT !.failed = {}]
    [] track = "first" -> [obs EXCEPT !.first = FALSE]
    [] track = "taken" ->
         [obs EXCEPT !.takenLocal = IF marked THEN @ \cup {id}
                                    ELSE IF unmarked THEN @ \ {id} ELSE @]
    [] track = "start" -> [obs EXCEPT !.owed = @ \ {id}]
    [] OTHER -> obs

ObsIdle == ObsMeds(0, FALSE, FALSE)

ObsPermission(changed, result) ==
  CASE track = "fail" -> [obs EXCEPT !.failed = {}]
    [] track = "first" -> [obs EXCEPT !.first = FALSE]
    [] track = "start" -> [obs EXCEPT !.owed = IF changed THEN {} ELSE @]
    [] track = "minute" ->
         [obs EXCEPT !.minuteFull = @ /\ ~changed /\ result = "granted"]
    [] OTHER -> obs

ObsReload ==
  CASE track = "sent" -> [obs EXCEPT !.sentMin = Zero, !.sentDay = Zero]
    [] track = "fail" -> [obs EXCEPT !.failed = {}, !.failedMin = {}, !.sentMin = Zero]
    [] track = "first" -> [obs EXCEPT !.first = FALSE]
    [] track = "start" ->
         [obs EXCEPT !.owed = IF permission = "granted"
                                THEN DueNow(ParseMeds(storedMeds), now, tz) ELSE {},
                     !.missed = {}]
    [] track = "minute" ->
         [obs EXCEPT !.minuteEvals = 0, !.minuteFull = FALSE, !.skipped = FALSE]
    [] OTHER -> obs

TypeOK ==
  /\ now \in 0 .. Horizon - 1
  /\ tz \in TzOffsets
  /\ permission \in Permissions
  /\ IdsOf(medications) \subseteq MedIds
  /\ crashed \/ storedMeds = Corrupt \/ LoadMeds(storedMeds) = medications
  /\ lastCheckMinute \in ReminderTimes
  /\ currentView \in AppView
  /\ notificationPermission \in Permissions
  /\ nextId \in MedIds \cup {Cardinality(MedIds) + 1}
  /\ track \in Tracks

(* ------------------------------- Init --------------------------------- *)

\* The first mount, with nothing in localStorage, at one of `instants`, in one of
\* the time zones `zones`, with one of the notification permissions `perms`, of a
\* build with one of the API keys `keys`.
Boot(observed, instants, zones, perms, keys) ==
  /\ track = observed
  /\ now \in instants
  /\ tz \in zones
  /\ permission \in perms
  /\ medications = << >>
  /\ storedMeds = StringifyMeds(<< >>)
  /\ lastCheckMinute = NoString
  /\ timers = SetInterval({}, << >>)
  /\ intervalId = FreshHandle({})
  /\ currentView = "DASHBOARD"
  /\ today = NoString
  /\ notificationPermission = "default"
  /\ nextId = 1
  /\ out = NoOut
  /\ obs = NoObs
  /\ records = << >>
  /\ storedRecords = StringifyRecords(<< >>)
  /\ profile = NoProfile
  /\ storedProfile = NoItem
  /\ crashed = FALSE
  /\ entry = NoEntry
  /\ profileForm = NoProfileForm
  /\ analytics = NoAnalytics
  /\ apiKey \in keys
  /\ pending = {}
  /\ settled = << >>
  /\ mounting = << >>

\* The first mount at the epoch, of a build with an API key.
Mount(observed) == Boot(observed, {0}, TzOffsets, Permissions, {"key"})

Init == Mount("none")

(* ------------------------------ actions ------------------------------- *)

\* One timer period of wall-clock time passes.  `stalled`: a due callback was
\* held back over it (a throttled or frozen tab, a sleeping device).
ClockStep(stalled) ==
  /\ now + 1 < Horizon
  /\ now' = now + 1
  /\ timers' = { [t EXCEPT !.due = TRUE] : t \in timers }
  /\ UNCHANGED mounting
  /\ out' = NoOut
  /\ obs' = ObsClock(stalled)
  /\ UNCHANGED << tz, permission, medications, storedMeds, lastCheckMinute, intervalId,
                  currentView, today, notificationPermission, nextId, track >>
  /\ UNCHANGED << dataVars, viewVars, gatewayVars >>

\* Time passes while the app runs: every due interval callback has run.
Advance ==
  /\ \A t \in timers : ~t.due
  /\ ClockStep(FALSE)

\* Time passes although a callback is due: timers give no guarantee of timeliness.
Stall ==
  /\ \E t \in timers : t.due
  /\ ClockStep(TRUE)

\* A due interval fires: checkReminders runs to completion.  `throwing`: the
\* medications whose `new Notification(...)` throws.
Tick(timer, throwing) ==
  LET r == checkReminders(timer.meds, lastCheckMinute, permission, now, tz)
      e == Emit(r.due, throwing)
  IN  /\ timer.due
      /\ throwing \subseteq { r.due[i] : i \in 1 .. Len(r.due) }
      /\ lastCheckMinute' = r.marker
      /\ timers' = (timers \ {timer}) \cup { [timer EXCEPT !.due = FALSE] }
      /\ UNCHANGED mounting
      /\ out' = [by |-> "tick", evaluated |-> r.evaluated, attempted |-> e.attempted]
      /\ obs' = ObsTick(r, e, throwing)
      /\ UNCHANGED << now, tz, permission, medications, storedMeds, intervalId, currentView,
                      today, notificationPermission, nextId, track >>
      /\ UNCHANGED << dataVars, viewVars, gatewayVars >>

\* setMedications(next) and what follows it: the re-render (the Medications view
\* recomputes `today`), the save effect and the scheduler effect.
SetMedications(next) ==
  /\ ~crashed
  /\ medications' = next
  /\ storedMeds' = StringifyMeds(next)
  /\ timers' = SchedulerEffect(timers, intervalId, next)
  /\ intervalId' = EffectHandle(timers, intervalId)
  /\ today' = IF currentView = "MEDICATIONS" THEN ISODate(now) ELSE today
  /\ UNCHANGED mounting
  /\ out' = NoOut
  /\ UNCHANGED << now, tz, permission, lastCheckMinute, currentView, notificationPermission,
                  track >>
  /\ UNCHANGED << dataVars, viewVars, gatewayVars >>

\* Medications.handleAdd -> App.addMedication
AddMedication(rt) ==
  /\ currentView = "MEDICATIONS"
  /\ nextId \in MedIds
  /\ SetMedications(Append(medications, NewMed(nextId, rt)))
  /\ nextId' = nextId + 1
  /\ obs' = ObsIdle

\* A click on a medication's check mark: onToggleTaken(med.id, today)
ToggleTaken(id) ==
  LET next == toggleMedTaken(medications, id, today)
  IN  /\ currentView = "MEDICATIONS"
      /\ id \in IdsOf(medications)
      /\ SetMedications(next)
      /\ obs' = ObsMeds(id, MedById(next, id).takenToday, ~MedById(next, id).takenToday)
      /\ UNCHANGED nextId

\* A click on a medication's bin: deleteMedication(id), window.confirm answered.
DeleteMedication(id, confirmed) ==
  /\ ~crashed
  /\ currentView = "MEDICATIONS"
  /\ id \in IdsOf(medications)
  /\ IF confirmed
       THEN /\ SetMedications(FilterOut(medications, id))
            /\ obs' = ObsMeds(id, FALSE, TRUE)
            /\ UNCHANGED nextId
       ELSE /\ UNCHANGED mounting
            /\ out' = NoOut
            /\ obs' = ObsIdle
            /\ UNCHANGED << now, tz, permission, medications, storedMeds, lastCheckMinute,
                            timers, intervalId, currentView, today, notificationPermission,
                            nextId, track >>
            /\ UNCHANGED << dataVars, viewVars, gatewayVars >>

\* NavItem / dashboard button: setCurrentView(view).  The view left is unmounted:
\* its state is gone and the calls it has in flight have no caller to return to.
\* Entering the Medications view mounts it: `today` is computed and the mount
\* effect copies Notification.permission.  Entering the dashboard renders it:
\* `records.sort(...)` sorts the state's array in place.
Navigate(view) ==
  /\ ~crashed
  /\ view # currentView
  /\ currentView' = view
  /\ today' = IF view = "MEDICATIONS" THEN ISODate(now) ELSE NoString
  /\ notificationPermission' = IF view = "MEDICATIONS" THEN permission ELSE "default"
  /\ records' = IF view = "DASHBOARD" THEN SortLatestFirst(records) ELSE records
  /\ entry' = IF view = "ENTRY" THEN MountEntry(records, profile) ELSE NoEntry
  /\ profileForm' = IF view = "PROFILE" THEN MountProfileForm(profile, now, tz)
                                        ELSE NoProfileForm
  /\ analytics' = IF view = "ANALYTICS" THEN MountAnalytics(now) ELSE NoAnalytics
  /\ pending' = Orphaned(pending)
  /\ UNCHANGED mounting
  /\ out' = NoOut
  /\ obs' = ObsIdle
  /\ UNCHANGED << now, tz, permission, medications, storedMeds, lastCheckMinute, timers,
                  intervalId, nextId, track >>
  /\ UNCHANGED << storedRecords, profile, storedProfile, crashed, apiKey, settled >>

\* Medications.requestPermission and its promise's callback.  The button is
\* rendered while the view's notificationPermission is 'default'; the browser
\* asks the user only while Notification.permission is 'default'.
RequestPermission(answer) ==
  LET result == IF permission = "default" THEN answer ELSE permission
  IN  /\ ~crashed
      /\ currentView = "MEDICATIONS"
      /\ notificationPermission = "default"
      /\ permission' = result
      /\ notificationPermission' = result
      /\ today' = IF result # notificationPermission THEN ISODate(now) ELSE today
      /\ UNCHANGED mounting
      /\ out' = IF result = "granted"
                  THEN [by |-> "request", evaluated |-> FALSE, attempted |-> {}]
                  ELSE NoOut
      /\ obs' = ObsPermission(result # permission, result)
      /\ UNCHANGED << now, tz, medications, storedMeds, lastCheckMinute, timers, intervalId,
                      currentView, nextId, track >>
      /\ UNCHANGED << dataVars, viewVars, gatewayVars >>

\* The user changes the site's notification setting in the browser, from
\* allowed to blocked or back.
SetPermission(p) ==
  /\ permission # "default"
  /\ p # permission
  /\ permission' = p
  /\ UNCHANGED mounting
  /\ out' = NoOut
  /\ obs' = ObsPermission(TRUE, p)
  /\ UNCHANGED << now, tz, medications, storedMeds, lastCheckMinute, timers, intervalId,
                  currentView, today, notificationPermission, nextId, track >>
  /\ UNCHANGED << dataVars, viewVars, gatewayVars >>

\* The page is reloaded: a new process mounts App and renders the dashboard with
\* the initial state; the load effect reads the three keys and the save effects
\* write the initial lists; then App renders again with what was loaded (the
\* dashboard sorts the loaded records in place), the save effects write that and
\* the scheduler effect starts the interval of this process; the marker starts
\* empty again.  When an item is not JSON, JSON.parse throws in the load effect
\* and React unmounts the tree; `saved`: whether the effects after the one that
\* threw (the save effects) were still run, which differs between React versions.
Reload ==
  \E saved \in BOOLEAN :
    /\ IF Corrupt \in {storedRecords, storedMeds, storedProfile}
         THEN /\ crashed' = TRUE
              /\ records' = << >>
              /\ medications' = << >>
              /\ profile' = NoProfile
              /\ storedRecords' = IF saved THEN StringifyRecords(<< >>) ELSE storedRecords
              /\ storedMeds' = IF saved THEN StringifyMeds(<< >>) ELSE storedMeds
              /\ timers' = {}
              /\ UNCHANGED storedProfile
         ELSE /\ saved
              /\ crashed' = FALSE
              /\ records' = SortLatestFirst(LoadRecords(storedRecords))
              /\ medications' = LoadMeds(storedMeds)
              /\ profile' = LoadProfile(storedProfile)
              /\ storedRecords' = StringifyRecords(records')
              /\ storedMeds' = StringifyMeds(medications')
              /\ storedProfile' = SaveProfile(profile', storedProfile)
              /\ timers' = SetInterval({}, medications')
    /\ lastCheckMinute' = NoString
    /\ intervalId' = FreshHandle({})
    /\ currentView' = "DASHBOARD"
    /\ today' = NoString
    /\ notificationPermission' = "default"
    /\ entry' = NoEntry
    /\ profileForm' = NoProfileForm
    /\ analytics' = NoAnalytics
    /\ pending' = {}
    /\ settled' = << >>
    /\ mounting' = << >>
    /\ out' = NoOut
    /\ obs' = ObsReload
    /\ UNCHANGED << now, tz, permission, nextId, track, apiKey >>

Next ==
  \/ Advance
  \/ Stall
  \/ \E timer \in timers : \E throwing \in SUBSET MedIds : Tick(timer, throwing)
  \/ \E rt \in ReminderChoices : AddMedication(rt)
  \/ \E id \in MedIds : ToggleTaken(id)
  \/ \E id \in MedIds : \E confirmed \in BOOLEAN : DeleteMedication(id, confirmed)
  \/ \E view \in Views : Navigate(view)
  \/ \E answer \in Permissions : RequestPermission(answer)
  \/ \E p \in {"granted", "denied"} : SetPermission(p)
  \/ Reload

Spec == Init /\ [][Next]_vars

InitSent == Mount("sent")

SpecSent == InitSent /\ [][Next]_vars

InitFail == Mount("fail")

SpecFail == InitFail /\ [][Next]_vars

InitFirst == Mount("first")

SpecFirst == InitFirst /\ [][Next]_vars

InitTaken == Mount("taken")

SpecTaken == InitTaken /\ [][Next]_vars

InitStart == Mount("start")

SpecStart == InitStart /\ [][Next]_vars

InitMinute == Mount("minute")

SpecMinute == InitMinute /\ [][Next]_vars

(* ------------------------- the data-entry form ----------------------- *)

\* The dry-weight input changes: setDryWeight(e.target.value), and the memo
\* showFluidWarning, which depends on it, is computed again.
SetDryWeight(text) ==
  /\ ~crashed
  /\ currentView = "ENTRY"
  /\ text # entry.dryWeight
  /\ entry' = [entry EXCEPT !.dryWeight = text,
                            !.showFluidWarning = showFluidWarning(text, entry.fluidRemoval)]
  /\ UNCHANGED mounting
  /\ out' = NoOut
  /\ obs' = ObsIdle
  /\ UNCHANGED << now, tz, permission, medications, storedMeds, lastCheckMinute, timers,
                  intervalId, currentView, today, notificationPermission, nextId, track >>
  /\ UNCHANGED << dataVars, profileForm, analytics, gatewayVars >>

\* The fluid-removal input changes: setFluidRemoval(e.target.value)
SetFluidRemoval(text) ==
  /\ ~crashed
  /\ currentView = "ENTRY"
  /\ text # entry.fluidRemoval
  /\ entry' = [entry EXCEPT !.fluidRemoval = text,
                            !.showFluidWarning = showFluidWarning(entry.dryWeight, text)]
  /\ UNCHANGED mounting
  /\ out' = NoOut
  /\ obs' = ObsIdle
  /\ UNCHANGED << now, tz, permission, medications, storedMeds, lastCheckMinute, timers,
                  intervalId, currentView, today, notificationPermission, nextId, track >>
  /\ UNCHANGED << dataVars, profileForm, analytics, gatewayVars >>

\* The systolic input changes: setSystolic(e.target.value), and the memo bpStatus
\* is computed again.
SetSystolic(text) ==
  /\ ~crashed
  /\ currentView = "ENTRY"
  /\ text # entry.systolic
  /\ entry' = [entry EXCEPT !.systolic = text,
                            !.bpStatus = bpStatus(text, entry.diastolic, PatientAge(profile))]
  /\ UNCHANGED mounting
  /\ out' = NoOut
  /\ obs' = ObsIdle
  /\ UNCHANGED << now, tz, permission, medications, storedMeds, lastCheckMinute, timers,
                  intervalId, currentView, today, notificationPermission, nextId, track >>
  /\ UNCHANGED << dataVars, profileForm, analytics, gatewayVars >>

\* The diastolic input changes: setDiastolic(e.target.value)
SetDiastolic(text) ==
  /\ ~crashed
  /\ currentView = "ENTRY"
  /\ text # entry.diastolic
  /\ entry' = [entry EXCEPT !.diastolic = text,
                            !.bpStatus = bpStatus(entry.systolic, text, PatientAge(profile))]
  /\ UNCHANGED mounting
  /\ out' = NoOut
  /\ obs' = ObsIdle
  /\ UNCHANGED << now, tz, permission, medications, storedMeds, lastCheckMinute, timers,
                  intervalId, currentView, today, notificationPermission, nextId, track >>
  /\ UNCHANGED << dataVars, profileForm, analytics, gatewayVars >>

\* Profile: the age input changes: setAge(e.target.value)
SetAge(text) ==
  /\ ~crashed
  /\ currentView = "PROFILE"
  /\ text # profileForm.age
  /\ profileForm' = [profileForm EXCEPT !.age = text]
  /\ UNCHANGED mounting
  /\ out' = NoOut
  /\ obs' = ObsIdle
  /\ UNCHANGED << now, tz, permission, medications, storedMeds, lastCheckMinute, timers,
                  intervalId, currentView, today, notificationPermission, nextId, track >>
  /\ UNCHANGED << dataVars, entry, analytics, gatewayVars >>

\* Profile: the start-date input changes: setStartDate(e.target.value), and the
\* memo dialysisStats is computed again, with new Date() of that render.
SetStartDate(date) ==
  /\ ~crashed
  /\ currentView = "PROFILE"
  /\ date # profileForm.startDate
  /\ profileForm' = [profileForm EXCEPT !.startDate = date,
                                        !.dialysisStats = dialysisStats(date, now, tz)]
  /\ UNCHANGED mounting
  /\ out' = NoOut
  /\ obs' = ObsIdle
  /\ UNCHANGED << now, tz, permission, medications, storedMeds, lastCheckMinute, timers,
                  intervalId, currentView, today, notificationPermission, nextId, track >>
  /\ UNCHANGED << dataVars, entry, analytics, gatewayVars >>

\* Profile.handleSubmit -> App.updateProfile: setProfile(newProfile), the save
\* effect, and Profile's effect on [profile], which writes the saved age and
\* start date back into the form.
UpdateProfile ==
  /\ ~crashed
  /\ currentView = "PROFILE"
  /\ ProfileFormValid(profileForm, now)
  /\ profile' = ProfileData(profileForm)
  /\ storedProfile' = SaveProfile(profile', storedProfile)
  /\ profileForm' = [profileForm EXCEPT !.age = Decimal(profile'[1].age[1], 0)]
  /\ UNCHANGED mounting
  /\ out' = NoOut
  /\ obs' = ObsIdle
  /\ UNCHANGED << now, tz, permission, medications, storedMeds, lastCheckMinute, timers,
                  intervalId, currentView, today, notificationPermission, nextId, track >>
  /\ UNCHANGED << records, storedRecords, crashed, entry, analytics, gatewayVars >>

\* The first day of the third month of the calendar's second year ("2024-03-01"
\* when day 0 is 2023-01-01).
ReferenceDay == DaysPerMonth * MonthsPerYear + 2 * DaysPerMonth

\* The instants the Profile view is used at: the minutes of that day and the
\* last minute of the day before.
ProfileInstants ==
  { (ReferenceDay * MinutesPerDay + m) * PeriodsPerMinute : m \in -1 .. MinutesPerDay - 1 }

\* Time zones west of, at and east of Greenwich.
ProfileZones == {-1, 0, 1}

\* The values of the start-date input: none, the first and a later day of the
\* first month, the first day of the second month, and days around the
\* reference day.
StartDates ==
  {<< >>, <<0>>, <<1>>, <<DaysPerMonth>>, <<ReferenceDay - 1>>, <<ReferenceDay>>,
   <<ReferenceDay + 1>>, <<ReferenceDay + DaysPerMonth>>}

\* The user at the Profile form.
NextProfile ==
  \/ \E view \in {"DASHBOARD", "PROFILE"} : Navigate(view)
  \/ \E date \in StartDates : SetStartDate(date)
  \/ \E text \in AgeTexts : SetAge(text)
  \/ UpdateProfile

InitProfile == Boot("none", ProfileInstants, ProfileZones, {"default"}, {"key"})

SpecProfile == InitProfile /\ [][NextProfile]_vars

\* The user at the data-entry form's two pressure inputs, with the age of the
\* saved profile.
NextPressure ==
  \/ \E view \in {"DASHBOARD", "ENTRY", "PROFILE"} : Navigate(view)
  \/ \E text \in SystolicTexts : SetSystolic(text)
  \/ \E text \in DiastolicTexts : SetDiastolic(text)
  \/ \E text \in AgeTexts : SetAge(text)
  \/ UpdateProfile

InitPressure == Boot("none", {0}, {0}, {"default"}, {"key"})

SpecPressure == InitPressure /\ [][NextPressure]_vars

\* The user at the data-entry form's two weight inputs.
NextFluid ==
  \/ \E view \in {"DASHBOARD", "ENTRY"} : Navigate(view)
  \/ \E text \in DryWeightTexts : SetDryWeight(text)
  \/ \E text \in FluidTexts : SetFluidRemoval(text)

InitFluid == Boot("none", {0}, TzOffsets, {"default"}, {"key"})

SpecFluid == InitFluid /\ [][NextFluid]_vars

(* ------------------------- records and storage ----------------------- *)

\* The dates of the model's days.
Dates == { <<d>> : d \in 0 .. MaxDay }

\* The most records the list grows to.
MaxRecords == 2

\* What the user submits: a session of each of the days, with valid inputs.
RecordInputs ==
  { RecordData(date, Decimal(702, 1), Decimal(60, 0), Decimal(3, 0), Decimal(140, 0),
               Decimal(85, 0)) : date \in Dates }

\* DataEntry.handleSubmit -> App.addRecord with Date.now() reading `reading`: the
\* record gets the reading as its id, is appended and saved, and the view changes
\* to Analytics, which unmounts the form.
AddRecordAt(reading, recordData) ==
  /\ ~crashed
  /\ currentView = "ENTRY"
  /\ Len(records) < MaxRecords
  /\ records' = addRecord(records, NewRecord(<< reading >>, recordData))
  /\ storedRecords' = StringifyRecords(records')
  /\ currentView' = "ANALYTICS"
  /\ entry' = NoEntry
  /\ analytics' = MountAnalytics(now)
  /\ pending' = Orphaned(pending)
  /\ UNCHANGED mounting
  /\ out' = NoOut
  /\ obs' = ObsIdle
  /\ UNCHANGED << now, tz, permission, medications, storedMeds, lastCheckMinute, timers,
                  intervalId, today, notificationPermission, nextId, track >>
  /\ UNCHANGED << profile, storedProfile, crashed, profileForm, apiKey, settled >>

\* The same while the clock runs forward: the reading is later than that of every
\* record before it.
AddRecord(recordData) == AddRecordAt(Len(records) + 1, recordData)

\* The keys of localStorage the app uses.
StorageKeys == {"dialysis_records", "dialysis_meds", "dialysis_profile"}

\* Something other than this process (another tab, the user, an interrupted
\* write) leaves a text that is not JSON under one of the keys.
Spoil(key) ==
  /\ storedRecords' = IF key = "dialysis_records" THEN Corrupt ELSE storedRecords
  /\ storedMeds' = IF key = "dialysis_meds" THEN Corrupt ELSE storedMeds
  /\ storedProfile' = IF key = "dialysis_profile" THEN Corrupt ELSE storedProfile
  /\ << storedRecords', storedMeds', storedProfile' >>
       # << storedRecords, storedMeds, storedProfile >>
  /\ UNCHANGED mounting
  /\ out' = NoOut
  /\ obs' = ObsIdle
  /\ UNCHANGED << now, tz, permission, medications, lastCheckMinute, timers, intervalId,
                  currentView, today, notificationPermission, nextId, track >>
  /\ UNCHANGED << records, profile, crashed, viewVars, gatewayVars >>

\* The user adds records, manages medications, saves the profile, moves between
\* the views and reloads the page.
NextStore ==
  \/ \E recordData \in RecordInputs : AddRecord(recordData)
  \/ AddMedication(NoString)
  \/ \E id \in MedIds : ToggleTaken(id)
  \/ \E id \in MedIds : \E confirmed \in BOOLEAN : DeleteMedication(id, confirmed)
  \/ \E view \in AppView : Navigate(view)
  \/ SetAge(Decimal(70, 0))
  \/ UpdateProfile
  \/ Reload

InitStore == Boot("none", {0}, {0}, {"default"}, {"key"})

SpecStore == InitStore /\ [][NextStore]_vars

\* The same, with storage that can be spoilt.
NextCorrupt ==
  \/ NextStore
  \/ \E key \in StorageKeys : Spoil(key)

InitCorrupt == Boot("none", {0}, {0}, {"default"}, {"key"})

SpecCorrupt == InitCorrupt /\ [][NextCorrupt]_vars

(* ------------------------------ the start ----------------------------- *)

\* What a step of the start leaves alone.
StartFrame ==
  /\ out' = NoOut
  /\ obs' = ObsIdle
  /\ UNCHANGED << now, tz, permission, lastCheckMinute, intervalId, currentView, today,
                  notificationPermission, nextId, track >>
  /\ UNCHANGED << crashed, viewVars, gatewayVars >>

\* The page is loaded: App renders its initial state ([], [], null on the
\* dashboard) and the first of the first commit's effects runs, the load effect,
\* which reads the three keys and queues setRecords / setMedications /
\* setProfile.  With an item that does not parse it throws, as in Reload.
StartLoad ==
  IF Corrupt \in {storedRecords, storedMeds, storedProfile}
    THEN Reload
    ELSE /\ mounting' = << [step |-> "records",
                            records |-> LoadRecords(storedRecords),
                            medications |-> LoadMeds(storedMeds),
                            profile |-> LoadProfile(storedProfile)] >>
         /\ records' = << >>
         /\ medications' = << >>
         /\ profile' = NoProfile
         /\ crashed' = FALSE
         /\ timers' = {}
         /\ lastCheckMinute' = NoString
         /\ intervalId' = FreshHandle({})
         /\ currentView' = "DASHBOARD"
         /\ today' = NoString
         /\ notificationPermission' = "default"
         /\ entry' = NoEntry
         /\ profileForm' = NoProfileForm
         /\ analytics' = NoAnalytics
         /\ pending' = {}
         /\ settled' = << >>
         /\ out' = NoOut
         /\ obs' = ObsReload
         /\ UNCHANGED << now, tz, permission, nextId, track, apiKey >>
         /\ UNCHANGED << storedRecords, storedMeds, storedProfile >>

\* The first commit's save effect of the records: setItem('dialysis_records',
\* JSON.stringify(records)) with the records of the first render.
SaveRecordsEffect ==
  /\ mounting # << >> /\ mounting[1].step = "records"
  /\ storedRecords' = StringifyRecords(records)
  /\ mounting' = << [mounting[1] EXCEPT !.step = "meds"] >>
  /\ UNCHANGED << records, medications, profile, storedMeds, storedProfile, timers >>
  /\ StartFrame

\* The first commit's save effect of the medications.
SaveMedsEffect ==
  /\ mounting # << >> /\ mounting[1].step = "meds"
  /\ storedMeds' = StringifyMeds(medications)
  /\ mounting' = << [mounting[1] EXCEPT !.step = "profile"] >>
  /\ UNCHANGED << records, medications, profile, storedRecords, storedProfile, timers >>
  /\ StartFrame

\* The first commit's save effect of the profile: if (profile) setItem(...).
SaveProfileEffect ==
  /\ mounting # << >> /\ mounting[1].step = "profile"
  /\ storedProfile' = SaveProfile(profile, storedProfile)
  /\ mounting' = << [mounting[1] EXCEPT !.step = "render"] >>
  /\ UNCHANGED << records, medications, profile, storedRecords, storedMeds, timers >>
  /\ StartFrame

\* The queued updates are applied: App renders the loaded state (the dashboard
\* sorts the records in place), the three save effects write it and the
\* scheduler effect starts the interval.
Commit ==
  /\ mounting # << >> /\ mounting[1].step = "render"
  /\ records' = SortLatestFirst(mounting[1].records)
  /\ medications' = mounting[1].medications
  /\ profile' = mounting[1].profile
  /\ storedRecords' = StringifyRecords(records')
  /\ storedMeds' = StringifyMeds(medications')
  /\ storedProfile' = SaveProfile(profile', storedProfile)
  /\ timers' = SetInterval({}, medications')
  /\ mounting' = << >>
  /\ StartFrame

\* The app is used (records, medications and a profile are saved) and the page is
\* loaded, effect by effect; a new load can begin at any point, which is what a
\* stop of the process followed by the next start comes to.
NextStartup ==
  \/ mounting = << >> /\ \E recordData \in RecordInputs : AddRecord(recordData)
  \/ mounting = << >> /\ AddMedication(NoString)
  \/ mounting = << >> /\ \E view \in {"ENTRY", "MEDICATIONS", "PROFILE"} : Navigate(view)
  \/ mounting = << >> /\ SetAge(Decimal(70, 0))
  \/ mounting = << >> /\ UpdateProfile
  \/ StartLoad
  \/ SaveRecordsEffect
  \/ SaveMedsEffect
  \/ SaveProfileEffect
  \/ Commit

InitStartup == Boot("none", {0}, {0}, {"default"}, {"key"})

SpecStartup == InitStartup /\ [][NextStartup]_vars

(* ------------------------ the entry form's submit --------------------- *)

\* What the user types into the weight, dry-weight, systolic and diastolic
\* inputs before pressing the submit button.
WeightInputs == {<< >>, Decimal(0, 0), Negative(600, 1), Decimal(702, 1), Decimal(7025, 2)}

DryWeightInputs == {<< >>, Decimal(60, 0)}

SystolicInputs == {<< >>, Negative(5, 0), Decimal(899, 1), Decimal(140, 0)}

DiastolicInputs == {<< >>, Decimal(0, 0), Decimal(85, 0)}

\* <input type="number" step=...>: the value is a multiple of the step, which
\* has `places` decimal places (no min attribute, so counted from 0).
StepMatches(text, places) ==
  text[1].n % Pow10(IF text[1].k > places THEN text[1].k - places ELSE 0) = 0

\* The entry form's constraint validation, without which the browser does not
\* submit: weight and dry weight required with step="0.1", fluid removal with
\* step="0.1" if given, systolic and diastolic required with the default step 1.
\* (The date input is required too and always holds a date.)
EntryFormValid(weight, dryWeight, fluidRemoval, systolic, diastolic) ==
  /\ weight # << >> /\ StepMatches(weight, 1)
  /\ dryWeight # << >> /\ StepMatches(dryWeight, 1)
  /\ fluidRemoval # << >> => StepMatches(fluidRemoval, 1)
  /\ systolic # << >> /\ StepMatches(systolic, 0)
  /\ diastolic # << >> /\ StepMatches(diastolic, 0)

\* The submit button of the entry form: validation, then handleSubmit.
HandleSubmit(date, weight, dryWeight, fluidRemoval, systolic, diastolic) ==
  /\ EntryFormValid(weight, dryWeight, fluidRemoval, systolic, diastolic)
  /\ \E recordData \in
         { RecordData(date, weight, dryWeight, fluidRemoval, systolic, diastolic) } :
       AddRecord(recordData)

\* The user fills the entry form in and submits it, again and again.
NextSubmit ==
  \/ \E view \in {"DASHBOARD", "ENTRY"} : Navigate(view)
  \/ \E weight \in WeightInputs : \E dryWeight \in DryWeightInputs :
     \E systolic \in SystolicInputs : \E diastolic \in DiastolicInputs :
       HandleSubmit(<< 0 >>, weight, dryWeight, << >>, systolic, diastolic)

InitSubmit == Boot("none", {0}, {0}, {"default"}, {"key"})

SpecSubmit == InitSubmit /\ [][NextSubmit]_vars

(* --------------------------- the identifiers -------------------------- *)

\* The most medications the list grows to.
MaxMeds == 3

\* Medications.handleAdd with Date.now() reading `reading`, which is the id.
AddMedicationAt(reading, rt) ==
  /\ currentView = "MEDICATIONS"
  /\ Len(medications) < MaxMeds
  /\ SetMedications(Append(medications, NewMed(reading, rt)))
  /\ nextId' = IF reading < nextId THEN nextId ELSE reading + 1
  /\ obs' = ObsIdle

\* What Date.now() can return to an add: the system clock is not monotonic (it
\* is set by the user and stepped by time synchronisation) and has a finite
\* resolution, so a reading can be one an earlier add has already had.
MedReadings == 1 .. (IF nextId \in MedIds THEN nextId ELSE nextId - 1)

RecordReadings == 1 .. Len(records) + 1

\* The user adds, toggles and deletes medications and adds records, at any
\* readings of the clock.
NextIds ==
  \/ \E reading \in MedReadings : AddMedicationAt(reading, NoString)
  \/ \E id \in MedIds : ToggleTaken(id)
  \/ \E id \in MedIds : \E confirmed \in BOOLEAN : DeleteMedication(id, confirmed)
  \/ \E view \in {"ENTRY", "MEDICATIONS"} : Navigate(view)
  \/ \E reading \in RecordReadings : \E recordData \in RecordInputs :
       AddRecordAt(reading, recordData)

InitIds == Boot("none", {0}, {0}, {"default"}, {"key"})

SpecIds == InitIds /\ [][NextIds]_vars

(* ---------------------------- the AI calls ---------------------------- *)

\* The months the month input of Analytics is set to.
Months == { MonthOf(d) : d \in Dates } \cup { << MonthOf(<<MaxDay>>)[1] + 1 >> }

\* The most transcripts appended to the notes of one form.
MaxNotes == 2

\* Analytics: the month input changes: setSelectedMonth(e.target.value) and
\* setAnalysis(null).
SetSelectedMonth(month) ==
  /\ ~crashed
  /\ currentView = "ANALYTICS"
  /\ month # analytics.selectedMonth
  /\ analytics' = [analytics EXCEPT !.selectedMonth = month, !.analysis = << >>,
                                    !.analysisOf = << >>]
  /\ UNCHANGED mounting
  /\ out' = NoOut
  /\ obs' = ObsIdle
  /\ UNCHANGED << now, tz, permission, medications, storedMeds, lastCheckMinute, timers,
                  intervalId, currentView, today, notificationPermission, nextId, track >>
  /\ UNCHANGED << dataVars, entry, profileForm, gatewayVars >>

\* What the caller does with a settled promise: handleGenerateAnalysis resumes
\* after its await with setAnalysis(result) and setLoading(false), reader.onloadend
\* with setNotes (if the text is not empty) and setIsTranscribing(false).  A
\* rejection ends the caller at the await.
Resume(call, result) ==
  /\ analytics' =
       IF call.fn = "generateHealthAnalysis" /\ call.live /\ result.state = "fulfilled"
         THEN [analytics EXCEPT !.analysis = << result.value >>,
                                !.analysisOf = call.recs, !.loading = FALSE]
         ELSE analytics
  /\ entry' =
       IF call.fn = "transcribeAudio" /\ call.live /\ result.state = "fulfilled"
         THEN [entry EXCEPT !.notes = IF result.value # "" THEN Append(@, result.value)
                                                            ELSE @,
                            !.isTranscribing = FALSE]
         ELSE entry

\* A click on the summary button: handleGenerateAnalysis up to its await.  Without
\* an API key the gateway makes no request and its promise is already settled.
HandleGenerateAnalysis ==
  LET recs == filteredRecords(records, analytics.selectedMonth)
      call == Call("generateHealthAnalysis", recs)
      result == generateHealthAnalysis(apiKey, recs, "none")
  IN  /\ ~crashed
      /\ currentView = "ANALYTICS"
      /\ ~analytics.loading
      /\ Len(recs) > 0
      /\ IF apiKey = ""
           THEN /\ Resume(call, result)
                /\ settled' = << [call |-> call, outcome |-> "none", result |-> result] >>
                /\ UNCHANGED pending
           ELSE /\ analytics' = [analytics EXCEPT !.loading = TRUE]
                /\ pending' = pending \cup {call}
                /\ UNCHANGED << entry, settled >>
      /\ UNCHANGED mounting
      /\ out' = NoOut
      /\ obs' = ObsIdle
      /\ UNCHANGED << now, tz, permission, medications, storedMeds, lastCheckMinute, timers,
                      intervalId, currentView, today, notificationPermission, nextId,
                      track >>
      /\ UNCHANGED << dataVars, profileForm, apiKey >>

\* A voice note is recorded and stopped: mediaRecorder.onstop and reader.onloadend
\* up to the await of transcribeAudio.
Transcribe ==
  LET call == Call("transcribeAudio", << >>)
      result == transcribeAudio(apiKey, "none")
  IN  /\ ~crashed
      /\ currentView = "ENTRY"
      /\ ~entry.isTranscribing
      /\ Len(entry.notes) < MaxNotes
      /\ IF apiKey = ""
           THEN /\ Resume(call, result)
                /\ settled' = << [call |-> call, outcome |-> "none", result |-> result] >>
                /\ UNCHANGED pending
           ELSE /\ entry' = [entry EXCEPT !.isTranscribing = TRUE]
                /\ pending' = pending \cup {call}
                /\ UNCHANGED << analytics, settled >>
      /\ UNCHANGED mounting
      /\ out' = NoOut
      /\ obs' = ObsIdle
      /\ UNCHANGED << now, tz, permission, medications, storedMeds, lastCheckMinute, timers,
                      intervalId, currentView, today, notificationPermission, nextId,
                      track >>
      /\ UNCHANGED << dataVars, profileForm, apiKey >>

\* The transport answers a request: the gateway function runs from its await to
\* its return, its promise settles and the caller, if it is still there, resumes.
Settle(call, outcome) ==
  LET result == IF call.fn = "generateHealthAnalysis"
                  THEN generateHealthAnalysis(apiKey, call.recs, outcome)
                  ELSE transcribeAudio(apiKey, outcome)
  IN  /\ call \in pending
      /\ pending' = pending \ {call}
      /\ settled' = << [call |-> call, outcome |-> outcome, result |-> result] >>
      /\ Resume(call, result)
      /\ UNCHANGED mounting
      /\ out' = NoOut
      /\ obs' = ObsIdle
      /\ UNCHANGED << now, tz, permission, medications, storedMeds, lastCheckMinute, timers,
                      intervalId, currentView, today, notificationPermission, nextId,
                      track >>
      /\ UNCHANGED << dataVars, profileForm, apiKey >>

\* The user records sessions and voice notes and asks for summaries, and the
\* transport answers.
NextGateway ==
  \/ \E view \in {"DASHBOARD", "ENTRY", "ANALYTICS"} : Navigate(view)
  \/ \E recordData \in RecordInputs : AddRecord(recordData)
  \/ \E month \in Months : SetSelectedMonth(month)
  \/ HandleGenerateAnalysis
  \/ Transcribe
  \/ \E call \in pending : \E outcome \in Outcomes : Settle(call, outcome)

InitGateway == Boot("none", {0}, {0}, {"default"}, ApiKeys)

SpecGateway == InitGateway /\ [][NextGateway]_vars

(* ------------------------------ properties ---------------------------- *)

\* C1 (SpecSent): scheduler idempotence.  However many ticks the running process
\* runs within one wall-clock minute, it constructs at most one notification per
\* medication in that minute.
C1_TickIdempotent == \A id \in MedIds : obs.sentMin[id] <= 1

\* A tick that found the marker equal to the current minute and emitted nothing,
\* while a medication notified earlier in this minute is still due and not taken.
C1_Witness ==
  /\ out.by = "tick" /\ ~out.evaluated /\ permission = "granted"
  /\ \E id \in DueNow(medications, now, tz) : obs.sentMin[id] = 1

C3_FirstTickNotifiesDue ==
  (out.by = "tick" /\ obs.first) => out.attempted = DueNow(medications, now, tz)

\* C4 as stated (SpecTaken): no tick constructs a notification for a medication
\* the user marked taken earlier on the same day of the local clock.
C4_TakenTodayNotNotified ==
  out.by = "tick" => out.attempted \cap obs.takenLocal = {}

\* C5 (Spec): whoever constructs a notification, the scheduler tick or the
\* permission request, does so while Notification.permission is 'granted'.
C5_NotifyOnlyWhenGranted ==
  (out.by = "request" \/ out.attempted # {}) => permission = "granted"

\* A tick that constructed a notification.
C5_Witness == out.by = "tick" /\ out.attempted # {} /\ permission = "granted"

\* C6 (SpecFail): whichever constructor calls throw, an evaluating tick attempts
\* every due medication, the interval stays armed, and a medication whose
\* notification failed is attempted once in that minute, never again.
C6_FailureContained ==
  /\ (out.by = "tick" /\ out.evaluated) => out.attempted = DueNow(medications, now, tz)
  /\ obs.failedMin # {} => \E t \in timers : t.h = intervalId
  /\ \A id \in obs.failedMin : obs.sentMin[id] = 1

\* The notification of a medication threw and the one of a medication later in
\* the list was constructed all the same.
C6_Witness ==
  /\ out.by = "tick"
  /\ \E i, j \in 1 .. Len(medications) :
       /\ i < j
       /\ medications[i].id \in obs.failed
       /\ medications[j].id \in out.attempted \ obs.failed

\* C7 as stated (SpecStart): a medication due and not taken in the minute the
\* process starts in is notified before that minute ends.
C7_StartMinuteNotified == obs.missed = {}

\* C8 as stated (SpecMinute): in every minute the app runs through with permission
\* granted, the reminder comparison is performed exactly once.
C8_ComparedOncePerMinute == ~obs.skipped /\ obs.minuteEvals <= 1

\* C9 (Spec): at most one interval is active, and it is the one the latest run of
\* the scheduler effect created.
C9_OneInterval ==
  /\ Cardinality(timers) <= 1
  /\ \A t \in timers : t.h = intervalId

\* The interval ticks after medication changes re-created it.
C9_Witness ==
  /\ out.by = "tick" /\ Len(medications) = Cardinality(MedIds)
  /\ Cardinality(timers) = 1

\* C10 (Spec): for every medication m and date d: a stale takenToday does not count
\* as taken on d, and the scheduler and the view agree on that; toggling m when
\* it is not taken on d sets lastTakenDate = d and takenToday = true; toggling it
\* when taken makes it not taken on d; two toggles restore the taken-on-d status.
C10_TakenTodaySemantics ==
  \A i \in 1 .. Len(medications) : \A d \in Dates :
    LET m == medications[i]
        once == toggleMedTaken(medications, m.id, d)
        twice == toggleMedTaken(once, m.id, d)
    IN  /\ (m.takenToday /\ m.lastTakenDate # d) => ~isTakenToday(m, d)
        /\ IsDue(m, m.reminderTime, d) = ~isTakenToday(m, d)
        /\ ~isTakenToday(m, d) => (once[i].lastTakenDate = d /\ once[i].takenToday)
        /\ isTakenToday(m, d) => ~isTakenToday(once[i], d)
        /\ isTakenToday(twice[i], d) = isTakenToday(m, d)

\* The Medications view shows a medication whose takenToday is a leftover of an
\* earlier date.
C10_Witness ==
  /\ currentView = "MEDICATIONS" /\ today = ISODate(now)
  /\ \E i \in 1 .. Len(medications) :
       /\ medications[i].takenToday
       /\ medications[i].lastTakenDate \in Dates \ {today}

\* The value a numeral denotes is positive.
IsPositive(text) == text # << >> /\ ~text[1].neg /\ text[1].n > 0

\* The ratio of the values two numerals denote is over 5%: fr / dw > 1 / 20,
\* for dw positive.
OverFivePercent(dw, fr) ==
  /\ fr # << >>
  /\ ~fr[1].neg
  /\ 20 * fr[1].n * Pow10(dw[1].k) > dw[1].n * Pow10(fr[1].k)

\* C11: the fluid warning is shown iff both inputs parse, dryWeight > 0 and
\* fluidRemoval / dryWeight > 0.05 strictly; a ratio of exactly 5% does not warn.
C11_FluidWarningIffOverFivePercent ==
  currentView = "ENTRY" =>
    (entry.showFluidWarning <=>
       IsPositive(entry.dryWeight) /\ OverFivePercent(entry.dryWeight, entry.fluidRemoval))

\* The pressures the form holds, as parsed, when both parse.
BothParse == parseInt(entry.systolic) # << >> /\ parseInt(entry.diastolic) # << >>

Sys == parseInt(entry.systolic)[1]

Dia == parseInt(entry.diastolic)[1]

\* The systolic limit of the patient's age: 150 from 65 years on, else 140.
SystolicLimit == IF profile # NoProfile /\ profile[1].age[1] >= 65 THEN 150 ELSE 140

\* C12: with both pressures parsed and any age, systolic < 90 or diastolic < 60
\* gives 'danger', never 'warning', whatever the other value is.
C12_HypotensionPreempts ==
  currentView = "ENTRY" /\ BothParse /\ (Sys < 90 \/ Dia < 60) => entry.bpStatus = "danger"

C12_Witness ==
  /\ currentView = "ENTRY" /\ BothParse
  /\ Sys = 85 /\ Dia = 95
  /\ entry.bpStatus = "danger"

\* C13: when hypotension does not apply, the status is 'warning' iff
\* systolic > S or diastolic > 90, S = 150 from age 65 on, 140 below or without age.
C13_HypertensionByAge ==
  currentView = "ENTRY" /\ BothParse /\ Sys >= 90 /\ Dia >= 60 =>
    (entry.bpStatus = "warning" <=> Sys > SystolicLimit \/ Dia > 90)

C13_Witness ==
  /\ currentView = "ENTRY" /\ BothParse
  /\ profile # NoProfile /\ profile[1].age[1] = 70
  /\ Sys = 148 /\ Dia = 85
  /\ entry.bpStatus = "null"

\* C14: the status is one of no status, danger, warning; it is no status iff a
\* pressure does not parse or 90 <= systolic <= limit and 60 <= diastolic <= 90;
\* it is what the inputs of the state determine.
C14_ExactlyOneStatus ==
  currentView = "ENTRY" =>
    /\ entry.bpStatus \in {"null", "danger", "warning"}
    /\ entry.bpStatus = "null" <=>
         \/ ~BothParse
         \/ Sys >= 90 /\ Sys <= SystolicLimit /\ Dia >= 60 /\ Dia <= 90
    /\ entry.bpStatus = "danger" => BothParse /\ (Sys < 90 \/ Dia < 60)
    /\ entry.bpStatus = "warning" =>
         BothParse /\ Sys >= 90 /\ Dia >= 60 /\ (Sys > SystolicLimit \/ Dia > 90)

C14_Witness ==
  /\ currentView = "ENTRY" /\ BothParse
  /\ Sys = 90 /\ Dia = 60
  /\ entry.bpStatus = "null"

\* The year and the month of a date as entered (YYYY-MM-DD).
YearOf(date) == date[1] \div (DaysPerMonth * MonthsPerYear)

MonthOfYear(date) == (date[1] \div DaysPerMonth) % MonthsPerYear

\* What the Profile view shows for the start date it holds.
Stats == profileForm.dialysisStats[1]

HasStats == currentView = "PROFILE" /\ profileForm.startDate # << >>

\* The start date is strictly after the date of `now`.
StartAfterToday == profileForm.startDate[1] > ISODate(now)[1]

\* C15: for a start date not after the reference date, the duration is
\* (nowYear - startYear) * 12 + (nowMonth - startMonth), clamped to >= 0, with the
\* year and month of the start date as entered, in every time zone.
C15_MonthsFromEnteredDate ==
  HasStats /\ ~StartAfterToday =>
    LET months == (getFullYear(now, tz) - YearOf(profileForm.startDate)) * 12
                    + (getMonth(now, tz) - MonthOfYear(profileForm.startDate))
    IN  Stats.totalMonths = IF months < 0 THEN 0 ELSE months

Occurrences(recs, r) == Cardinality({ i \in DOMAIN recs : recs[i] = r })

\* C17: records are append-only: a step adds at most one record, and every record
\* there was is still there, all its fields unchanged, after any operation.
C17_RecordsAppendOnly ==
  [][/\ Len(records') \in {Len(records), Len(records) + 1}
     /\ \A i \in DOMAIN records :
          Occurrences(records', records[i]) >= Occurrences(records, records[i])]_vars

C17_Witness ==
  /\ Len(records) = 2
  /\ records[1].id = <<2>> /\ records[2].id = <<1>>
  /\ currentView = "MEDICATIONS"
  /\ profile # NoProfile

\* C18: once an operation that changes records, medications or profile has
\* settled, the value under its key equals the state; after a restart the
\* records, medications and profile in memory equal what was last persisted.
C18_SavedOnChangeLoadedOnStart ==
  [][/\ Len(records') > Len(records) => LoadRecords(storedRecords') = records'
     /\ medications' # medications => LoadMeds(storedMeds') = medications'
     /\ profile' # profile => LoadProfile(storedProfile') = profile'
     /\ Reload => /\ records' = LoadRecords(storedRecords)
                  /\ medications' = LoadMeds(storedMeds)
                  /\ profile' = LoadProfile(storedProfile)]_vars

\* C19: a value under one of the keys that does not parse does not crash the
\* startup: the app runs, with the empty default for that entity.
C19_CorruptItemDegrades ==
  [][Reload =>
       /\ ~crashed'
       /\ storedRecords = Corrupt => records' = << >>
       /\ storedMeds = Corrupt => medications' = << >>
       /\ storedProfile = Corrupt => profile' = NoProfile]_vars

\* The fixed strings generateHealthAnalysis falls back to.
AnalysisFallbacks == {"no API key", "no records", "no analysis", "analysis error"}

\* A call is a failure case: no API key, no records, or a transport that throws
\* or returns no text.
FailureCase(key, fn, recs, outcome) ==
  \/ key = ""
  \/ fn = "generateHealthAnalysis" /\ Len(recs) = 0
  \/ outcome \in {"throw", "empty"}

\* C20: neither gateway function ever rejects; in the failure cases
\* generateHealthAnalysis resolves to a fixed fallback string and transcribeAudio
\* to the empty string.
C20_GatewayNeverRejects ==
  /\ settled # << >> =>
       /\ settled[1].result.state = "fulfilled"
       /\ FailureCase(apiKey, settled[1].call.fn, settled[1].call.recs, settled[1].outcome)
            => IF settled[1].call.fn = "transcribeAudio"
                 THEN settled[1].result.value = ""
                 ELSE settled[1].result.value \in AnalysisFallbacks
  /\ \A outcome \in Outcomes :
       /\ generateHealthAnalysis(apiKey, << >>, outcome).state = "fulfilled"
       /\ generateHealthAnalysis(apiKey, << >>, outcome).value \in AnalysisFallbacks
  /\ ~crashed /\ pending = {} => ~analytics.loading /\ ~entry.isTranscribing

C20_Witness ==
  /\ settled # << >>
  /\ settled[1].call.fn = "generateHealthAnalysis"
  /\ settled[1].outcome = "throw"
  /\ settled[1].result = Fulfilled("analysis error")
  /\ analytics.analysis = << "analysis error" >>

\* C21: an analysis that is displayed was generated from the records of the month
\* now selected, also when the month changed while the call was pending; and a
\* transcript is appended to the notes only for a call of the form now mounted.
C21_StaleResponsesDiscarded ==
  [][/\ currentView' = "ANALYTICS" /\ analytics'.analysis # << >> =>
          analytics'.analysisOf = filteredRecords(records', analytics'.selectedMonth)
     /\ entry'.notes # entry.notes /\ entry'.notes # << >> =>
          \E call \in pending : call.fn = "transcribeAudio" /\ call.live]_vars

\* Pairwise different ids.
Distinct(seq) == \A i, j \in 1 .. Len(seq) : seq[i].id = seq[j].id => i = j

\* C22: in every reachable state no two medications share an id and no two
\* records share an id, whatever the clock reads at successive adds.
C22_IdsUnique == Distinct(medications) /\ Distinct(records)

\* A Number that is present and greater than zero.
PositiveNumber(x) == x.cls = "num" /\ ~x.neg

\* C23: every record in the list has weight, dryWeight, systolic and diastolic
\* present and positive (not missing, NaN, zero or negative).
C23_StoredFieldsPositive ==
  \A i \in 1 .. Len(records) :
    /\ PositiveNumber(records[i].weight)
    /\ PositiveNumber(records[i].dryWeight)
    /\ PositiveNumber(records[i].systolic)
    /\ PositiveNumber(records[i].diastolic)

\* Every item of `before` is an item of `after`.
Kept(before, after) ==
  \A i \in 1 .. Len(before) : \E j \in 1 .. Len(after) : after[j] = before[i]

\* C24: after every step of a start (the load effect, each save effect, the state
\* update) the two list keys still hold everything that was persisted before the
\* start, and no step writes the profile key while the profile in memory is null.
C24_NothingLostAtStartup ==
  [][/\ mounting' # << >> =>
          /\ Kept(mounting'[1].records, LoadRecords(storedRecords'))
          /\ Kept(mounting'[1].medications, LoadMeds(storedMeds'))
     /\ profile = NoProfile /\ profile' = NoProfile => storedProfile' = storedProfile]_vars

\* C25: showing a view (the dashboard computes the latest record, the entry form
\* getLastDryWeight) leaves the record list as it was, same records in the same
\* order, and what is stored as well.
C25_RenderingReadOnly ==
  [][(\E view \in AppView : Navigate(view)) =>
       records' = records /\ storedRecords' = storedRecords]_vars

\* The list without its k-th item.
RemoveAt(seq, k) == [i \in 1 .. Len(seq) - 1 |-> IF i < k THEN seq[i] ELSE seq[i + 1]]

\* The step changes, of the medications, at most takenToday and lastTakenDate of
\* the k-th.
OnlyTakenOf(k) ==
  /\ Len(medications') = Len(medications)
  /\ \A i \in 1 .. Len(medications) : i # k => medications'[i] = medications[i]
  /\ [medications'[k] EXCEPT !.takenToday = medications[k].takenToday,
                             !.lastTakenDate = medications[k].lastTakenDate]
       = medications[k]

\* C26: a toggle changes only takenToday and lastTakenDate of the one medication
\* with the id; a confirmed delete removes exactly that one medication, a declined
\* delete none; none of them touches records or profile.
C26_MedicationFrame ==
  [][\A id \in MedIds :
       /\ ToggleTaken(id) =>
            /\ \E k \in 1 .. Len(medications) : medications[k].id = id /\ OnlyTakenOf(k)
            /\ UNCHANGED << records, profile >>
       /\ DeleteMedication(id, TRUE) =>
            /\ \E k \in 1 .. Len(medications) :
                 medications[k].id = id /\ medications' = RemoveAt(medications, k)
            /\ UNCHANGED << records, profile >>
       /\ DeleteMedication(id, FALSE) =>
            UNCHANGED << medications, records, profile >>]_vars

====
